---- MODULE Spec2Model ----
(***************************************************************************)
(* A model of src/main.rs: the font-embedding pipeline of main() and its   *)
(* helpers create_cmap, subset_tag and hash128.                            *)
(*                                                                         *)
(* Conventions                                                             *)
(*   Option<T>   None is <<>>, Some(x) is <<x>>.                           *)
(*   String/&str a sequence of UTF-8 bytes; chars() decodes it,            *)
(*               char::to_string encodes one code point.                   *)
(*   f32         the values main() computes are quotients of small         *)
(*               integers; each is kept as the reduced fraction <<n, d>>.   *)
(*               f32 rounding is not modelled: for 16-bit numerators it    *)
(*               changes neither equality nor the test against 0.0.        *)
(*   u128        eight 16-bit limbs, most significant first.               *)
(***************************************************************************)
EXTENDS Integers, Sequences, FiniteSets, TLC

VARIABLES
    pc,              \* position in main(), or the unit operation pending
    err,             \* the fatal error that ended the run, "" if none
    trace,           \* the stages of main() completed so far, in order
    message,         \* `message`, UTF-8 bytes
    font,            \* the parsed face: what ttf_parser answers
    sip_range,       \* the 128-bit values SipHash may take in this behaviour
    sip_memo,        \* SipHash values already fixed: <<key, bytes>> -> u128
    font_data,       \* bytes read from the font source
    message_glyphs,  \* Vec<u16>, one per character of message
    glyph_set,       \* BTreeMap<u16, String>
    glyph_set2,      \* a second BTreeMap<u16, String> (unit spec of subset_tag)
    tag,             \* subset_tag(&glyph_set)
    tag2,            \* subset_tag(&glyph_set2)
    widths,          \* Vec<f32>, dense, indexed by glyph id + 1
    runs,            \* the (first, last, width) triples given to widths().same
    descriptor,      \* what the font descriptor was given
    cmap,            \* the pairs given to UnicodeCmap::pair_with_multiple
    stream,          \* the font stream: its data and filter
    encoded,         \* the content stream's glyph bytes
    out_file         \* target/hello_embed.pdf: "absent", "partial", "complete"

vars == <<pc, err, trace, message, font, sip_range, sip_memo, font_data,
          message_glyphs, glyph_set, glyph_set2, tag, tag2, widths, runs,
          descriptor, cmap, stream, encoded, out_file>>

----------------------------------------------------------------------------
(* Bounds of the model *)

\* longest message, in characters
MaxLen == 2
\* font.number_of_glyphs()
NumGlyphs == 10
\* largest key of a BTreeMap drawn directly (unit specifications)
MaxKey == 1
\* longest text fragment, in characters, of a BTreeMap drawn directly
MaxText == 2

----------------------------------------------------------------------------
(* Option, sequences *)

None == <<>>
Some(x) == <<x>>
UnwrapOr(o, d) == IF o = <<>> THEN d ELSE o[1]

RECURSIVE Concat(_)
\* the concatenation of a sequence of sequences
Concat(ss) == IF ss = <<>> THEN <<>> ELSE Head(ss) \o Concat(Tail(ss))

SeqsUpTo(S, n) == UNION {[1..k -> S] : k \in 0..n}

RECURSIVE SortedSeq(_)
\* the elements of a finite set of integers in ascending order
SortedSeq(S) ==
    IF S = {} THEN <<>>
    ELSE LET m == CHOOSE x \in S : \A y \in S : x <= y
         IN  <<m>> \o SortedSeq(S \ {m})

----------------------------------------------------------------------------
(* f32 values as reduced fractions *)

RECURSIVE Gcd(_, _)
Gcd(a, b) == IF b = 0 THEN a ELSE Gcd(b, a % b)

Abs(x) == IF x < 0 THEN -x ELSE x

Frac(n, d) == LET g == Gcd(Abs(n), d) IN <<n \div g, d \div g>>

FZero == <<0, 1>>

\* main.rs:48  |v| (v / units_per_em as f32) * 1000.0
to_font_units(v, upem) == Frac(v * 1000, upem)

----------------------------------------------------------------------------
(* UTF-8: char::to_string, str::chars *)

Utf8Encode(c) ==
    IF c < 128 THEN <<c>>
    ELSE IF c < 2048 THEN <<192 + (c \div 64), 128 + (c % 64)>>
    ELSE IF c < 65536
         THEN <<224 + (c \div 4096), 128 + ((c \div 64) % 64), 128 + (c % 64)>>
    ELSE <<240 + (c \div 262144), 128 + ((c \div 4096) % 64),
           128 + ((c \div 64) % 64), 128 + (c % 64)>>

\* the str literal holding the characters cs
StrOf(cs) == Concat([i \in 1..Len(cs) |-> Utf8Encode(cs[i])])

RECURSIVE StrChars(_)
\* str::chars, collected
StrChars(s) ==
    IF s = <<>> THEN <<>>
    ELSE LET b == s[1]
             n == IF b < 128 THEN 1 ELSE IF b < 224 THEN 2 ELSE IF b < 240 THEN 3 ELSE 4
             c == IF n = 1 THEN b
                  ELSE IF n = 2 THEN (b - 192) * 64 + (s[2] - 128)
                  ELSE IF n = 3
                       THEN (b - 224) * 4096 + (s[2] - 128) * 64 + (s[3] - 128)
                  ELSE (b - 240) * 262144 + (s[2] - 128) * 4096
                       + (s[3] - 128) * 64 + (s[4] - 128)
         IN  <<c>> \o StrChars(SubSeq(s, n + 1, Len(s)))

----------------------------------------------------------------------------
(* The font: what ttf_parser::Face and fontdb::FaceInfo answer *)

\* ttf.glyph_index(ch)
glyph_index(f, ch) == IF ch \in DOMAIN f.cmap THEN f.cmap[ch] ELSE None

\* ttf.glyph_hor_advance(GlyphId(g))
glyph_hor_advance(f, g) == IF g \in DOMAIN f.adv THEN f.adv[g] ELSE None

----------------------------------------------------------------------------
(* main.rs:53-61  GlyphMapper *)

\* main.rs:54  does some character of the message have no glyph?
\* (the closure's unwrap() panics on it)
HasUnmappable(f, msg) ==
    \E i \in 1..Len(StrChars(msg)) : glyph_index(f, StrChars(msg)[i]) = None

\* a variant of MessageGlyphs that shows each distinct character once
MessageGlyphsDistinct(f, msg) ==
    LET cs  == StrChars(msg)
        idx == SortedSeq({i \in DOMAIN cs : \A j \in 1..(i - 1) : cs[j] # cs[i]})
    IN  [k \in 1..Len(idx) |-> glyph_index(f, cs[idx[k]])[1]]

\* main.rs:54  message.chars().map(|ch| ttf.glyph_index(ch).unwrap().0).collect()
MessageGlyphs(f, msg) ==
    [i \in 1..Len(StrChars(msg)) |-> glyph_index(f, StrChars(msg)[i])[1]]

\* main.rs:60  glyph_set.entry(g).or_insert_with(|| ch.to_string())
EntryOrInsert(gs, g, ch) ==
    IF g \in DOMAIN gs THEN gs ELSE gs @@ (g :> Utf8Encode(ch))

RECURSIVE GlyphSetLoop(_, _, _)
\* main.rs:58-61  the loop over message.chars(), from the characters cs on
GlyphSetLoop(f, cs, gs) ==
    IF cs = <<>> THEN gs
    ELSE LET ch == Head(cs)
             o  == glyph_index(f, ch)
         IN  IF o = None THEN GlyphSetLoop(f, Tail(cs), gs)
             ELSE GlyphSetLoop(f, Tail(cs), EntryOrInsert(gs, o[1], ch))

\* main.rs:57-61
BuildGlyphSet(f, msg) == GlyphSetLoop(f, StrChars(msg), <<>>)

\* BTreeMap::keys(): ascending
Keys(gs) == SortedSeq(DOMAIN gs)

----------------------------------------------------------------------------
(* main.rs:121-143  widths and the width runs *)

\* main.rs:122-127  widths[g] for glyph g is ComputeWidths(..)[g + 1]
ComputeWidths(f, gs) ==
    [k \in 1..f.num_glyphs |->
        IF (k - 1) \in DOMAIN gs
        THEN to_font_units(UnwrapOr(glyph_hor_advance(f, k - 1), 0), f.units_per_em)
        ELSE FZero]

RECURSIVE WidthLoop(_, _, _, _, _)
\* main.rs:133-141  the iterations from index i on; out is what same() was given
WidthLoop(w, i, start, start_width, out) ==
    IF i >= Len(w) THEN out
    ELSE IF w[i + 1] # start_width \/ i = Len(w) - 1
         THEN WidthLoop(w, i + 1, i, w[i + 1],
                        IF start_width # FZero
                        THEN Append(out, <<start, i, start_width>>)
                        ELSE out)
         ELSE WidthLoop(w, i + 1, start, start_width, out)

\* main.rs:130-141
WidthRuns(w) == WidthLoop(w, 1, 0, w[1], <<>>)

----------------------------------------------------------------------------
(* main.rs:146-167  flags and metrics *)

RECURSIVE Contains(_, _)
\* str::contains
Contains(s, pat) ==
    IF Len(s) < Len(pat) THEN FALSE
    ELSE IF SubSeq(s, 1, Len(pat)) = pat THEN TRUE
    ELSE Contains(Tail(s), pat)

\* "Serif"
SerifPattern == <<83, 101, 114, 105, 102>>

\* main.rs:147-152
Flags(f) ==
    (IF Contains(f.post_script_name, SerifPattern) THEN {"SERIF"} ELSE {})
    \cup (IF f.is_monospaced THEN {"FIXED_PITCH"} ELSE {})
    \cup (IF f.is_italic THEN {"ITALIC"} ELSE {})
    \cup {"SYMBOLIC", "SMALL_CAP"}

\* main.rs:155-161
BBox(f) == [i \in 1..4 |-> to_font_units(f.bbox[i], f.units_per_em)]

\* main.rs:163
ItalicAngle(f) == UnwrapOr(f.italic_angle, 0)

\* main.rs:164
Ascender(f) == to_font_units(UnwrapOr(f.typographic_ascender, f.ascender), f.units_per_em)

\* a variant of Descender that falls back to the generic ascender
DescenderFromAscender(f) ==
    to_font_units(UnwrapOr(f.typographic_descender, f.ascender), f.units_per_em)

\* main.rs:165
Descender(f) == to_font_units(UnwrapOr(f.typographic_descender, f.descender), f.units_per_em)

\* main.rs:166
CapHeight(f) == to_font_units(UnwrapOr(f.capital_height, f.ascender), f.units_per_em)

\* main.rs:167  10.0 + 0.244 * (weight - 50.0)
StemV(f) == Frac(10000 + 244 * (f.weight - 50), 1000)

----------------------------------------------------------------------------
(* main.rs:227-241  create_cmap *)

RECURSIVE CmapLoop(_, _, _)
\* main.rs:234-238  the loop over glyph_set.iter(), from the keys ks on
CmapLoop(gs, ks, out) ==
    IF ks = <<>> THEN out
    ELSE LET g == Head(ks)
         IN  IF gs[g] # <<>>
             THEN CmapLoop(gs, Tail(ks), Append(out, <<g, StrChars(gs[g])>>))
             ELSE CmapLoop(gs, Tail(ks), out)

\* a variant of create_cmap without the is_empty test
create_cmap_keep_empty(gs) ==
    [i \in 1..Len(Keys(gs)) |-> <<Keys(gs)[i], StrChars(gs[Keys(gs)[i]])>>]

\* main.rs:228-241
create_cmap(gs) == CmapLoop(gs, Keys(gs), <<>>)

----------------------------------------------------------------------------
(* main.rs:243-261  subset_tag and hash128 *)

\* main.rs:245
LEN == 6
\* main.rs:246
BASE == 26
\* main.rs:223
COMPRESSION_LEVEL == 6

RECURSIVE LongDiv(_, _, _, _)
\* school division of the 16-bit limbs h[i..] by b with incoming remainder r:
\* <<quotient limbs, remainder>>
LongDiv(h, b, i, r) ==
    IF i > Len(h) THEN <<<<>>, r>>
    ELSE LET cur  == r * 65536 + h[i]
             rest == LongDiv(h, b, i + 1, cur % b)
         IN  <<<<cur \div b>> \o rest[1], rest[2]>>

\* u128 / b and u128 % b
U128Div(h, b) == LongDiv(h, b, 1, 0)[1]
U128Rem(h, b) == LongDiv(h, b, 1, 0)[2]

RECURSIVE TagLoop(_, _, _)
\* main.rs:249-252  the loop over letter.iter_mut(), n letters already set
TagLoop(hash, n, letter) ==
    IF n = LEN THEN letter
    ELSE TagLoop(U128Div(hash, BASE), n + 1,
                 Append(letter, (65 + (U128Rem(hash, BASE) % 256)) % 256))

\* main.rs:247-253  the tag of a glyph set whose hash is `hash`
TagLetters(hash) == TagLoop(hash, 0, <<>>)

\* a usize, little endian (64-bit target)
UsizeBytes(n) == <<n % 256, (n \div 256) % 256, 0, 0, 0, 0, 0, 0>>

\* <BTreeMap<u16, String> as Hash>::hash: the bytes fed to the hasher are the
\* length prefix, then per entry in key order the u16 (little endian), the
\* string's bytes and the 0xff that str's Hash appends
HashBytes(gs) ==
    UsizeBytes(Cardinality(DOMAIN gs))
    \o Concat([i \in 1..Len(Keys(gs)) |->
                 LET g == Keys(gs)[i]
                 IN  <<g % 256, g \div 256>> \o gs[g] \o <<255>>])

\* a variant of SipNewKeys: a hasher keyed per instance, as RandomState's are
SipRandomKeys == {<<0, 0>>, <<1, 0>>}

\* main.rs:258  SipHasher13::new(): the (k0, k1) a fresh hasher may hold
SipNewKeys == {<<0, 0>>}

\* main.rs:257-261  hash128(value) returns h: SipHash-1-3 is a fixed function of
\* key and input whose values the model does not compute; a value is drawn
\* the first time a (key, input) pair is hashed and kept from then on
hash128(gs, h) ==
    \E k \in SipNewKeys :
        LET p == <<k, HashBytes(gs)>>
        IN  IF p \in DOMAIN sip_memo
            THEN h = sip_memo[p] /\ UNCHANGED sip_memo
            ELSE h \in sip_range /\ sip_memo' = sip_memo @@ (p :> h)

\* main.rs:222-225  deflate: a zlib stream that inflates to `data`
deflate(data) == [format |-> "zlib", level |-> COMPRESSION_LEVEL, inflates_to |-> data]

----------------------------------------------------------------------------
(* The inputs the model draws *)

\* the characters a message is made of: 'A', 'B'
Chars == {65, 66}

\* "Helvetica", "NotoSerif"
Helvetica == <<72, 101, 108, 118, 101, 116, 105, 99, 97>>
NotoSerif == <<78, 111, 116, 111, 83, 101, 114, 105, 102>>

GlyphOpt == {None} \cup {Some(g) : g \in 0..(NumGlyphs - 1)}
AdvOpt == {None, Some(0), Some(500), Some(600)}

\* the glyphs a character map reaches
Mapped(c) == {c[ch][1] : ch \in {x \in DOMAIN c : c[x] # None}}

\* a face: 'A' is glyph 5 (advance 600), 'B' is glyph 9 (advance 0)
DefaultFont ==
    [cmap |-> (65 :> Some(5)) @@ (66 :> Some(9)),
     adv |-> (5 :> Some(600)) @@ (9 :> Some(0)),
     num_glyphs |-> NumGlyphs,
     units_per_em |-> 1000,
     ascender |-> 800,
     descender |-> -200,
     typographic_ascender |-> Some(750),
     typographic_descender |-> Some(-250),
     capital_height |-> Some(700),
     weight |-> 400,
     italic_angle |-> None,
     is_monospaced |-> FALSE,
     is_italic |-> FALSE,
     bbox |-> <<-100, -250, 1100, 950>>,
     post_script_name |-> Helvetica]

DefaultMessage == StrOf(<<65, 66>>)

\* faces that differ in their character map and advances
TextFonts ==
    UNION {{[DefaultFont EXCEPT !.cmap = c, !.adv = a] : a \in [Mapped(c) -> AdvOpt]}
           : c \in [Chars -> GlyphOpt]}

\* faces that differ in their metrics and traits
MetricFonts ==
    {[DefaultFont EXCEPT !.typographic_ascender = ta,
                         !.typographic_descender = td,
                         !.capital_height = ch,
                         !.units_per_em = u,
                         !.italic_angle = ia,
                         !.is_monospaced = tr[1],
                         !.is_italic = tr[2],
                         !.post_script_name = nm]
       : ta \in {None, Some(750)}, td \in {None, Some(-250)},
         ch \in {None, Some(700)}, u \in {1000, 2048},
         ia \in {None, Some(-12)}, tr \in BOOLEAN \X BOOLEAN,
         nm \in {Helvetica, NotoSerif}}

Messages == {StrOf(cs) : cs \in SeqsUpTo(Chars, MaxLen)}

\* the (message, face) pairs a run of main() starts from
Inputs == (Messages \X TextFonts) \cup ({DefaultMessage} \X MetricFonts)

\* the font file's bytes, and what the subsetter may return for them
FontBytes == <<0, 1, 0, 0, 7, 7, 7>>
SubsetOutputs == {<<0, 1, 0, 0, 7>>}

\* u128 values: the low limb varies, the upper seven are all 0 or all 0xffff
HashSamples ==
    {[i \in 1..8 |-> IF i = 8 THEN lo ELSE hi]
       : hi \in {0, 65535}, lo \in {0, 1, 25, 26, 27, 65535}}

DefaultHash == <<0, 0, 0, 0, 0, 0, 4660, 22136>>

----------------------------------------------------------------------------
(* main(): one action per stage *)

\* the stages of main() in program order
Stages == <<"query", "read", "parse", "map_message", "glyph_set", "fonts",
            "widths", "runs", "descriptor", "cmap", "font_stream", "content",
            "write">>

\* the stage finished: control moves on to next
Advance(stage, next) ==
    /\ pc = stage
    /\ pc' = next
    /\ trace' = Append(trace, stage)
    /\ err' = err

\* a variant of Abort that records the error and carries on with the next stage
AbortAndContinue(stage, e) ==
    /\ pc = stage
    /\ pc' = LET i == CHOOSE j \in DOMAIN Stages : Stages[j] = stage
             IN  IF i = Len(Stages) THEN "done" ELSE Stages[i + 1]
    /\ err' = e
    /\ trace' = Append(trace, stage)

\* the stage failed: a panic (expect/unwrap) or an Err returned from main
Abort(stage, e) ==
    /\ pc = stage
    /\ pc' = "aborted"
    /\ err' = e
    /\ trace' = trace

Init ==
    /\ \E in \in Inputs : message = in[1] /\ font = in[2]
    /\ pc = "query"
    /\ err = ""
    /\ trace = <<>>
    /\ sip_range = {DefaultHash}
    /\ sip_memo = <<>>
    /\ font_data = <<>>
    /\ message_glyphs = <<>>
    /\ glyph_set = <<>>
    /\ glyph_set2 = <<>>
    /\ tag = <<>>
    /\ tag2 = <<>>
    /\ widths = <<>>
    /\ runs = <<>>
    /\ descriptor = <<>>
    /\ cmap = <<>>
    /\ stream = <<>>
    /\ encoded = <<>>
    /\ out_file = "absent"

\* main.rs:22-33  font_db.query(..).expect(..)
QueryFont ==
    /\ \/ Advance("query", "read")
       \/ Abort("query", "FontNotFound")
    /\ UNCHANGED <<message, font, sip_range, sip_memo, font_data, message_glyphs,
                   glyph_set, glyph_set2, tag, tag2, widths, runs, descriptor,
                   cmap, stream, encoded, out_file>>

\* main.rs:36-40  the source's bytes; fs::read(f).unwrap() for a file source
ReadSource ==
    /\ \/ Advance("read", "parse") /\ font_data' = FontBytes
       \/ Abort("read", "IoFailureRead") /\ font_data' = font_data
    /\ UNCHANGED <<message, font, sip_range, sip_memo, message_glyphs,
                   glyph_set, glyph_set2, tag, tag2, widths, runs, descriptor,
                   cmap, stream, encoded, out_file>>

\* main.rs:43-45  ttf_parser::Face::parse(..).expect(..)
ParseFont ==
    /\ \/ Advance("parse", "map_message")
       \/ Abort("parse", "FontParseFailure")
    /\ UNCHANGED <<message, font, sip_range, sip_memo, font_data, message_glyphs,
                   glyph_set, glyph_set2, tag, tag2, widths, runs, descriptor,
                   cmap, stream, encoded, out_file>>

\* main.rs:54  message_glyphs
MapMessage ==
    /\ \/ /\ ~HasUnmappable(font, message)
          /\ Advance("map_message", "glyph_set")
          /\ message_glyphs' = MessageGlyphs(font, message)
       \/ /\ HasUnmappable(font, message)
          /\ Abort("map_message", "UnmappableCharacter")
          /\ message_glyphs' = message_glyphs
    /\ UNCHANGED <<message, font, sip_range, sip_memo, font_data,
                   glyph_set, glyph_set2, tag, tag2, widths, runs, descriptor,
                   cmap, stream, encoded, out_file>>

\* main.rs:57-61  glyph_set
GlyphSet ==
    /\ Advance("glyph_set", "fonts")
    /\ glyph_set' = BuildGlyphSet(font, message)
    /\ UNCHANGED <<message, font, sip_range, sip_memo, font_data, message_glyphs,
                   glyph_set2, tag, tag2, widths, runs, descriptor,
                   cmap, stream, encoded, out_file>>

\* main.rs:63-119  catalog, page, and the two font dictionaries named
\* subset_tag + "+" + postscript name
FontDicts ==
    /\ Advance("fonts", "widths")
    /\ \E h \in sip_range : hash128(glyph_set, h) /\ tag' = TagLetters(h)
    /\ UNCHANGED <<message, font, sip_range, font_data, message_glyphs,
                   glyph_set, glyph_set2, tag2, widths, runs, descriptor,
                   cmap, stream, encoded, out_file>>

\* main.rs:122-127  widths
Widths ==
    /\ Advance("widths", "runs")
    /\ widths' = ComputeWidths(font, glyph_set)
    /\ UNCHANGED <<message, font, sip_range, sip_memo, font_data, message_glyphs,
                   glyph_set, glyph_set2, tag, tag2, runs, descriptor,
                   cmap, stream, encoded, out_file>>

\* main.rs:130-144  the runs written to the W array
WriteRuns ==
    /\ Advance("runs", "descriptor")
    /\ runs' = WidthRuns(widths)
    /\ UNCHANGED <<message, font, sip_range, sip_memo, font_data, message_glyphs,
                   glyph_set, glyph_set2, tag, tag2, widths, descriptor,
                   cmap, stream, encoded, out_file>>

\* main.rs:147-182  the font descriptor
Descriptor ==
    /\ Advance("descriptor", "cmap")
    /\ descriptor' = [name |-> tag \o <<43>> \o font.post_script_name,
                      flags |-> Flags(font),
                      bbox |-> BBox(font),
                      italic_angle |-> ItalicAngle(font),
                      ascent |-> Ascender(font),
                      descent |-> Descender(font),
                      cap_height |-> CapHeight(font),
                      stem_v |-> StemV(font)]
    /\ UNCHANGED <<message, font, sip_range, sip_memo, font_data, message_glyphs,
                   glyph_set, glyph_set2, tag, tag2, widths, runs,
                   cmap, stream, encoded, out_file>>

\* main.rs:186-187  the /ToUnicode CMap
ToUnicode ==
    /\ Advance("cmap", "font_stream")
    /\ cmap' = create_cmap(glyph_set)
    /\ UNCHANGED <<message, font, sip_range, sip_memo, font_data, message_glyphs,
                   glyph_set, glyph_set2, tag, tag2, widths, runs, descriptor,
                   stream, encoded, out_file>>

\* a variant of EmbeddedBytes that embeds nothing when the subsetter declines
EmbeddedBytesOrEmpty(subsetted, data) == UnwrapOr(subsetted, <<>>)

\* main.rs:192  subsetted.as_deref().unwrap_or(&font_data)
EmbeddedBytes(subsetted, data) == UnwrapOr(subsetted, data)

\* main.rs:189-197  subset, deflate, and the font stream with its filter;
\* subsetter::subset answers Ok(bytes), Some here, or Err, None here (the
\* answer is kept beside the stream, in its field `subsetted`)
FontStream ==
    /\ Advance("font_stream", "content")
    /\ \E subsetted \in {None} \cup {Some(b) : b \in SubsetOutputs} :
          stream' = [data |-> deflate(EmbeddedBytes(subsetted, font_data)),
                     filter |-> "FlateDecode",
                     subsetted |-> subsetted]
    /\ UNCHANGED <<message, font, sip_range, sip_memo, font_data, message_glyphs,
                   glyph_set, glyph_set2, tag, tag2, widths, runs, descriptor,
                   cmap, encoded, out_file>>

\* main.rs:200-204  each u16 glyph as two bytes, high byte first
Encode(gl) == Concat([i \in 1..Len(gl) |-> <<(gl[i] \div 256) % 256, gl[i] % 256>>])

\* main.rs:200-212  the content stream
ContentStream ==
    /\ Advance("content", "write")
    /\ encoded' = Encode(message_glyphs)
    /\ UNCHANGED <<message, font, sip_range, sip_memo, font_data, message_glyphs,
                   glyph_set, glyph_set2, tag, tag2, widths, runs, descriptor,
                   cmap, stream, out_file>>

\* main.rs:216-219  writer.finish() and fs::write; a failed write may leave
\* no file or a truncated one
WriteFile ==
    /\ \/ Advance("write", "done") /\ out_file' = "complete"
       \/ Abort("write", "IoFailureWrite") /\ out_file' \in {"absent", "partial"}
    /\ UNCHANGED <<message, font, sip_range, sip_memo, font_data, message_glyphs,
                   glyph_set, glyph_set2, tag, tag2, widths, runs, descriptor,
                   cmap, stream, encoded>>

Next ==
    \/ QueryFont
    \/ ReadSource
    \/ ParseFont
    \/ MapMessage
    \/ GlyphSet
    \/ FontDicts
    \/ Widths
    \/ WriteRuns
    \/ Descriptor
    \/ ToUnicode
    \/ FontStream
    \/ ContentStream
    \/ WriteFile

Spec == Init /\ [][Next]_vars

----------------------------------------------------------------------------
(* Unit specifications: create_cmap and subset_tag applied to maps drawn     *)
(* directly, which include what main() never builds (empty and              *)
(* multi-character text fragments)                                          *)

\* the characters of a drawn text fragment: 'A', U+00E9, U+20AC
CmapChars == {65, 233, 8364}

Texts == {StrOf(cs) : cs \in SeqsUpTo(CmapChars, MaxText)}

GlyphSetSamples == UNION {[K -> Texts] : K \in SUBSET (0..MaxKey)}

TagGlyphSets == UNION {[K -> {<<>>, <<65>>}] : K \in SUBSET (0..MaxKey)}

\* every variable main() alone uses, at rest
PipelineIdle ==
    /\ err = ""
    /\ trace = <<>>
    /\ message = <<>>
    /\ font = DefaultFont
    /\ font_data = <<>>
    /\ message_glyphs = <<>>
    /\ widths = <<>>
    /\ runs = <<>>
    /\ descriptor = <<>>
    /\ stream = <<>>
    /\ encoded = <<>>
    /\ out_file = "absent"

InitCmap ==
    /\ PipelineIdle
    /\ pc = "cmap_call"
    /\ glyph_set \in GlyphSetSamples
    /\ glyph_set2 = <<>>
    /\ sip_range = {DefaultHash}
    /\ sip_memo = <<>>
    /\ tag = <<>>
    /\ tag2 = <<>>
    /\ cmap = <<>>

\* main.rs:228-241  a call of create_cmap(&glyph_set)
CallCreateCmap ==
    /\ pc = "cmap_call"
    /\ pc' = "cmap_returned"
    /\ cmap' = create_cmap(glyph_set)
    /\ UNCHANGED <<err, trace, message, font, sip_range, sip_memo, font_data,
                   message_glyphs, glyph_set, glyph_set2, tag, tag2, widths,
                   runs, descriptor, stream, encoded, out_file>>

NextCmap == CallCreateCmap

SpecCmap == InitCmap /\ [][NextCmap]_vars

InitTag ==
    /\ PipelineIdle
    /\ pc = "tag_first"
    /\ glyph_set \in TagGlyphSets
    /\ glyph_set2 \in TagGlyphSets
    /\ sip_range = HashSamples
    /\ sip_memo = <<>>
    /\ tag = <<>>
    /\ tag2 = <<>>
    /\ cmap = <<>>

\* main.rs:244-254  a call of subset_tag(&glyph_set)
CallSubsetTag ==
    /\ pc = "tag_first"
    /\ pc' = "tag_second"
    /\ \E h \in sip_range : hash128(glyph_set, h) /\ tag' = TagLetters(h)
    /\ UNCHANGED <<err, trace, message, font, sip_range, font_data,
                   message_glyphs, glyph_set, glyph_set2, tag2, widths,
                   runs, descriptor, cmap, stream, encoded, out_file>>

\* main.rs:244-254  a later call, subset_tag(&glyph_set2)
CallSubsetTagAgain ==
    /\ pc = "tag_second"
    /\ pc' = "tag_done"
    /\ \E h \in sip_range : hash128(glyph_set2, h) /\ tag2' = TagLetters(h)
    /\ UNCHANGED <<err, trace, message, font, sip_range, font_data,
                   message_glyphs, glyph_set, glyph_set2, tag, widths,
                   runs, descriptor, cmap, stream, encoded, out_file>>

NextTag ==
    \/ CallSubsetTag
    \/ CallSubsetTagAgain

SpecTag == InitTag /\ [][NextTag]_vars

----------------------------------------------------------------------------
(* Properties *)

\* the stage has completed
Done(stage) == \E i \in DOMAIN trace : trace[i] = stage

\* the characters of the message
MessageChars == StrChars(message)

RECURSIVE Decode(_, _)
\* the dense array the runs rs describe over `arr`: each run sets the glyphs
\* first..last (inclusive) to its width, a later run over an earlier one
Decode(rs, arr) ==
    IF rs = <<>> THEN arr
    ELSE Decode(Tail(rs),
                [k \in DOMAIN arr |->
                    IF Head(rs)[1] <= k - 1 /\ k - 1 <= Head(rs)[2]
                    THEN Head(rs)[3] ELSE arr[k]])

(* C1: decoding the emitted runs into an array of the same length, gaps     *)
(* filled with 0, reproduces the width array.  (C1, C2 and C9 are stated    *)
(* for the runs whose glyph set has no key 0, the case C4 is about.)        *)
C1_RoundTrip ==
    (Done("runs") /\ 0 \notin DOMAIN glyph_set) => Decode(runs, [k \in DOMAIN widths |-> FZero]) = widths

(* C2: the emitted runs are ascending and non-overlapping (each start is    *)
(* strictly greater than the previous end, start <= end) and every emitted  *)
(* width is non-zero.                                                       *)
C2_RunsAscendingDisjoint ==
    (Done("runs") /\ 0 \notin DOMAIN glyph_set) =>
        \A i \in DOMAIN runs :
            /\ runs[i][1] <= runs[i][2]
            /\ runs[i][3] # FZero
            /\ i > 1 => runs[i][1] > runs[i - 1][2]

(* C9: every emitted run ends at the last glyph of the maximal contiguous   *)
(* range sharing its width, a glyph g of non-zero width w between glyphs of *)
(* other widths yields the run (g, g, w), and for "AB" with 'A' -> glyph 5  *)
(* (width 600) and 'B' -> glyph 9 (width 0) the runs are exactly            *)
(* (5, 5, 600).                                                             *)
C9_InclusiveMaximalEnd ==
    (Done("runs") /\ 0 \notin DOMAIN glyph_set) =>
        /\ \A i \in DOMAIN runs :
              /\ widths[runs[i][2] + 1] = runs[i][3]
              /\ runs[i][2] + 2 <= Len(widths) => widths[runs[i][2] + 2] # runs[i][3]
        /\ \A g \in 1..(Len(widths) - 2) :
              (/\ widths[g + 1] # FZero
               /\ widths[g] # widths[g + 1]
               /\ widths[g + 2] # widths[g + 1])
              => \E i \in DOMAIN runs : runs[i] = <<g, g, widths[g + 1]>>
        /\ (message = DefaultMessage /\ font = DefaultFont)
              => runs = <<<<5, 5, <<600, 1>>>>>>

(* C3: either the run fails with UnmappableCharacter or the display glyph   *)
(* sequence has one entry per character of the message, in order and with   *)
(* repetitions, the k-th being the glyph of the k-th character; the content *)
(* stream then holds each entry's two bytes.                                *)
C3_OneGlyphPerCharacter ==
    /\ (pc = "aborted" /\ Len(trace) = 3) =>
          /\ err = "UnmappableCharacter"
          /\ \E k \in DOMAIN MessageChars : glyph_index(font, MessageChars[k]) = None
    /\ Done("map_message") =>
          /\ Len(message_glyphs) = Len(MessageChars)
          /\ \A k \in DOMAIN MessageChars :
                glyph_index(font, MessageChars[k]) = Some(message_glyphs[k])
    /\ Done("content") =>
          /\ Len(encoded) = 2 * Len(MessageChars)
          /\ \A k \in DOMAIN MessageChars :
                glyph_index(font, MessageChars[k])
                    = Some(encoded[2 * k - 1] * 256 + encoded[2 * k])

\* a run that shows a repeated character twice
C3_Witness ==
    /\ pc = "done"
    /\ Len(MessageChars) = 2
    /\ MessageChars[1] = MessageChars[2]
    /\ message_glyphs = <<message_glyphs[1], message_glyphs[1]>>

(* C4: the glyph set never has key 0 and never has a key that is not the    *)
(* glyph of some character of the message.                                  *)
C4_GlyphSetKeys ==
    Done("glyph_set") =>
        /\ 0 \notin DOMAIN glyph_set
        /\ \A g \in DOMAIN glyph_set :
              \E k \in DOMAIN MessageChars : glyph_index(font, MessageChars[k]) = Some(g)

\* a 6-character string over A-Z
IsTag(t) == Len(t) = 6 /\ \A i \in 1..Len(t) : 65 <= t[i] /\ t[i] <= 90

(* C5: subset_tag called twice on equal glyph sets returns the same string, *)
(* and every string it returns has exactly 6 characters, each in A-Z.       *)
C5_TagPureSixLetters ==
    /\ pc \in {"tag_second", "tag_done"} => IsTag(tag)
    /\ pc = "tag_done" => IsTag(tag2)
    /\ (pc = "tag_done" /\ glyph_set = glyph_set2) => tag = tag2

\* two calls on equal non-empty glyph sets, the tag reaching the letter Z
C5_Witness ==
    /\ pc = "tag_done"
    /\ glyph_set = glyph_set2
    /\ DOMAIN glyph_set # {}
    /\ tag = tag2
    /\ \E i \in DOMAIN tag : tag[i] = 90

(* C6: the reverse CMap has exactly one entry per key of non-empty text and *)
(* none for a key of empty text, in ascending glyph order; each entry's     *)
(* code points are the text's, in order (they encode back to the text), and *)
(* a single-character text gives that character.                            *)
C6_ReverseCmap ==
    pc = "cmap_returned" =>
        /\ [i \in DOMAIN cmap |-> cmap[i][1]]
              = SortedSeq({g \in DOMAIN glyph_set : glyph_set[g] # <<>>})
        /\ \A i \in DOMAIN cmap :
              /\ StrOf(cmap[i][2]) = glyph_set[cmap[i][1]]
              /\ \A c \in CmapChars :
                    glyph_set[cmap[i][1]] = Utf8Encode(c) => cmap[i][2] = <<c>>

\* a map with an empty text and a two-character text of different widths
C6_Witness ==
    /\ pc = "cmap_returned"
    /\ \E g \in DOMAIN glyph_set : glyph_set[g] = <<>>
    /\ \E i \in DOMAIN cmap : cmap[i][2] = <<8364, 65>>

\* the position of a stage in Stages
StageIndex(stage) == CHOOSE i \in DOMAIN Stages : Stages[i] = stage

\* the stage at which each fatal error arises
FailingStage(e) ==
    CASE e = "FontNotFound" -> "query"
      [] e = "IoFailureRead" -> "read"
      [] e = "FontParseFailure" -> "parse"
      [] e = "UnmappableCharacter" -> "map_message"
      [] e = "IoFailureWrite" -> "write"

(* C7: a fatal failure aborts the run at its stage: the stages before it    *)
(* have run, in order, none after it runs, and the output file is never     *)
(* written; the file is written only after every earlier stage completed.   *)
C7_FailFast ==
    /\ \E n \in 0..Len(Stages) : trace = SubSeq(Stages, 1, n)
    /\ err # "" =>
          /\ pc = "aborted"
          /\ trace = SubSeq(Stages, 1, StageIndex(FailingStage(err)) - 1)
    /\ err \in {"FontNotFound", "IoFailureRead", "FontParseFailure",
                "UnmappableCharacter"} =>
          /\ out_file = "absent"
          /\ glyph_set = <<>> /\ tag = <<>> /\ widths = <<>> /\ runs = <<>>
          /\ descriptor = <<>> /\ cmap = <<>> /\ stream = <<>> /\ encoded = <<>>
    /\ pc = "aborted" => err # ""
    /\ out_file # "absent" => SubSeq(Stages, 1, Len(Stages) - 1) = SubSeq(trace, 1, Len(Stages) - 1)

\* a run stopped by an unmappable character after three stages
C7_Witness ==
    /\ pc = "aborted"
    /\ err = "UnmappableCharacter"
    /\ trace = <<"query", "read", "parse">>
    /\ out_file = "absent"

(* C8: when the subsetter declines, the run does not fail: the full font    *)
(* bytes are deflated and embedded with the FlateDecode filter, and the run *)
(* goes on to the write; when it succeeds the subsetted bytes are embedded. *)
C8_SubsetFallback ==
    Done("font_stream") =>
        /\ stream.filter = "FlateDecode"
        /\ stream.data.format = "zlib"
        /\ stream.subsetted = None => stream.data.inflates_to = font_data
        /\ stream.subsetted # None => stream.data.inflates_to = stream.subsetted[1]
        /\ pc \in {"content", "write", "done", "aborted"}
        /\ pc = "aborted" => err = "IoFailureWrite"

\* a run that wrote the file with the full font embedded
C8_Witness ==
    /\ pc = "done"
    /\ out_file = "complete"
    /\ stream.subsetted = None
    /\ stream.data.inflates_to = FontBytes

(* C10 as stated: cap height, ascender and descender each fall back to the  *)
(* generic ascender when the specific value is unavailable.                 *)
C10_AllFallBackToAscender ==
    Done("descriptor") =>
        /\ descriptor.cap_height
              = to_font_units(UnwrapOr(font.capital_height, font.ascender), font.units_per_em)
        /\ descriptor.ascent
              = to_font_units(UnwrapOr(font.typographic_ascender, font.ascender), font.units_per_em)
        /\ descriptor.descent
              = to_font_units(UnwrapOr(font.typographic_descender, font.ascender), font.units_per_em)

(* C10 amended: cap height and ascender fall back to the generic ascender,  *)
(* the descender falls back to the generic descender; each uses the         *)
(* specific value when there is one, and the derivation never fails.        *)
C10_Fallbacks ==
    /\ Done("descriptor") =>
          /\ descriptor.cap_height
                = to_font_units(IF font.capital_height = None THEN font.ascender
                                ELSE font.capital_height[1], font.units_per_em)
          /\ descriptor.ascent
                = to_font_units(IF font.typographic_ascender = None THEN font.ascender
                                ELSE font.typographic_ascender[1], font.units_per_em)
          /\ descriptor.descent
                = to_font_units(IF font.typographic_descender = None THEN font.descender
                                ELSE font.typographic_descender[1], font.units_per_em)
    /\ (Done("runs") /\ pc = "aborted") => err = "IoFailureWrite"

\* a descriptor derived from a face with none of the three specific metrics
C10_Witness ==
    /\ Done("descriptor")
    /\ font.capital_height = None
    /\ font.typographic_ascender = None
    /\ font.typographic_descender = None
    /\ descriptor.descent # descriptor.ascent

====
